---- MODULE Spec2Model ----
(***************************************************************************)
(* Attention monitor (React front end): the hysteresis filter of           *)
(* useAttentionDetector, the 100 ms session accumulator of                 *)
(* AttentionMonitor and the reset / pause handlers of App.                 *)
(*                                                                         *)
(* Time is Date.now() in milliseconds.  The code keeps attentionTime,      *)
(* sessionTime and distractionDuration in seconds (ms / 1000); the model   *)
(* keeps the same quantities in integer milliseconds.  attentionPercentage *)
(* is kept in hundredths of a percent (10000 = 100 %).  Thresholds are in  *)
(* hundredths, landmark coordinates are integers and the offsets computed  *)
(* from them are exact fractions.                                          *)
(*                                                                         *)
(* Specifications:                                                         *)
(*   Spec       the session: frames, ticks, reset, pause / resume          *)
(*   HystSpec   the detector alone on a 50 ms grid                         *)
(*   AlertSpec  one session followed across the 5 s alert delay            *)
(*   CtlSpec    the session with the two threshold sliders                 *)
(*   AsyncSpec  frames and ticks at the grain of the event loop            *)
(*   GeomSpec   the classifier over faces of every shape, with the sliders *)
(*   AudioSpec  the session with the audio alert of useAudioAlert          *)
(*   BackendSpec  the session with a session id and the backend updates    *)
(*   SessionSpec  a ten-second session with ticks exactly 100 ms apart     *)
(*   OfflineSpec  the session with backend calls that resolve or reject    *)
(* In every specification but AsyncSpec a handler is one step together     *)
(* with the render and the effects that follow it.                         *)
(***************************************************************************)
EXTENDS Integers, Sequences, FiniteSets, TLC

\* ---------------------------------------------------------------- constants
HYSTERESIS_DELAY == 300

TICK_INTERVAL == 100

PERCENT == 100

\* Seconds of continuous distraction after which the alert shows.
DISTRACTION_ALERT_DELAY == 5

\* The alertDelay App passes to useAudioAlert, in seconds.
alertDelay == 5

\* useAudioAlert: the least time between two beeps, in ms.
beepIntervalMs == 1000

\* The period of the backend update interval, in ms.
UPDATE_INTERVAL == 1000

\* ------------------------------------------------------------------- bounds
\* Date.now() when the components mount.
MountTime == 1000

\* Number of clock quanta the model lets pass after mount.
MaxSteps == 6

\* The clock of the session model advances in quanta of one tick interval.
Quantum == TICK_INTERVAL

Horizon == MountTime + MaxSteps * Quantum

\* The hysteresis model observes frames on a 50 ms grid for HystSteps quanta.
HystSteps == 20

HystQuantum == TICK_INTERVAL \div 2

HystHorizon == MountTime + HystSteps * HystQuantum

\* The event-loop model follows the detector and the accumulator for
\* AsyncSteps clock quanta.
AsyncSteps == 4

AsyncHorizon == MountTime + AsyncSteps * Quantum

\* The control model follows a session for CtlSteps clock quanta of one
\* hysteresis window each.
CtlSteps == 2

CtlQuantum == HYSTERESIS_DELAY

CtlHorizon == MountTime + CtlSteps * CtlQuantum

\* The alert model follows one session across the alert delay.  Its clock
\* reaches the first tick one interval after mount, lets that tick be late by
\* a tenth of an interval, moves in steps of ten intervals (an interval
\* throttled to 1 s) up to the alert delay after the first tick, and then takes
\* AlertFineSteps steps of a tenth of an interval.
AlertFineSteps == 2

\* Number of ticks of the ten-second session.
SessionTicks == 100

\* Frames arrive in the ten-second session during this many tick intervals
\* from its start and from its middle.
WindowTicks == 4

\* Number of half seconds of the offline model.
OfflineSteps == 5

\* Number of 100 ms clock steps of the backend model.
BackendSteps == 25

\* Number of half seconds of the audio model past the alert delay.
AudioSteps == 3

AlertDelayMs == DISTRACTION_ALERT_DELAY * 1000

AlertCoarse == 10 * TICK_INTERVAL

AlertFine == TICK_INTERVAL \div 10

FirstTick == MountTime + TICK_INTERVAL

AlertHorizon == FirstTick + AlertDelayMs + AlertFineSteps * AlertFine

SessionLength == SessionTicks * TICK_INTERVAL

HalfSession == SessionLength \div 2

\* The instants of the ten-second session at which the detector delivers.
SessionFrameTimes ==
  {MountTime + k * TICK_INTERVAL : k \in 0..WindowTicks}
  \cup {MountTime + HalfSession + k * TICK_INTERVAL : k \in 0..WindowTicks}

OfflineQuantum == UPDATE_INTERVAL \div 2

OfflineHorizon == MountTime + OfflineSteps * OfflineQuantum

BackendHorizon == MountTime + BackendSteps * TICK_INTERVAL

\* The grid of the audio model: the first tick, leaps of one second until the
\* alert delay has passed since the first tick, then every fifth tick.
AudioFine == beepIntervalMs \div 2

AudioStep(t) ==
  IF t < FirstTick THEN FirstTick - t
  ELSE IF t < FirstTick + AlertDelayMs THEN AlertCoarse
  ELSE AudioFine

AudioHorizon == FirstTick + AlertDelayMs + AudioSteps * AudioFine

AlertStep(t) ==
  IF t < FirstTick THEN FirstTick - t
  ELSE IF t < FirstTick + AlertFine THEN AlertFine
  ELSE IF t + AlertCoarse < FirstTick + AlertDelayMs THEN AlertCoarse
  ELSE IF t < FirstTick + AlertDelayMs THEN FirstTick + AlertDelayMs - t
  ELSE AlertFine

\* ------------------------------------------------------------ nullable refs
Null == <<>>

Some(x) == <<x>>

Val(r) == r[1]

VARIABLES
  now,                 \* Date.now()
  isPaused,            \* App state
  stats,               \* App state: the record consumers see
  sessionStartRef,     \* AttentionMonitor refs
  attentionTimeRef,
  lastUpdateRef,
  distractionStartRef,
  detectionStateRef,
  detectionState,      \* useAttentionDetector state
  isAttentiveRef,      \* useAttentionDetector refs
  pendingStateRef,
  lastStateChangeRef,
  camera,              \* cameraRef: "null" until created, then "running"/"stopped"
  tickTimer,           \* due time of the 100 ms interval, Null when cleared
  lastOp,              \* history: "tick" / "reset" right after that handler, else "other"
  prevDuration,        \* history: distractionDuration of the last tick record
  fresh,               \* history: no tick since mount or the last re-initialisation
  pausedFor,           \* history: ms spent paused since lastUpdateRef was stamped
  hist,                \* history of the raw observations (hysteresis claims)
  showAlert,           \* AttentionMonitor: the alert flag of the last render
  thresholds,          \* App state, in hundredths
  thresholdsRef,       \* useAttentionDetector ref
  midFrame,            \* the onResults call that is in progress, Null when none
  lastFrame,           \* history: the last detector result classified, and with
                       \* which thresholds
  sessionId,           \* App state: Null until createSession resolves
  backendTimer,        \* due time of the backend update interval, Null when none
  sent,                \* history: the data of the last updateSession call
  idAt,                \* history: when the session id was set, 0 before
  createRequest,       \* createSession: "pending", then "resolved" or "rejected"
  updateRequests,      \* updateSession calls that await their response
  updateFailures,      \* history: how many updateSession calls were rejected
  audioEnabled,        \* App state
  lastBeepRef,         \* useAudioAlert ref: the time of the last beep, 0 before
  stableFor,           \* history: ms of clock spent with the stable value attentive
  ticksAttentive,      \* history: how many ticks read an attentive state
  onTime,              \* history: every tick so far ran when it was due
  prevBeep             \* history: the time of the beep before the last, 0 if none

vars == <<now, isPaused, stats, sessionStartRef, attentionTimeRef, lastUpdateRef,
          distractionStartRef, detectionStateRef, detectionState, isAttentiveRef,
          pendingStateRef, lastStateChangeRef, camera, tickTimer,
          lastOp, prevDuration, fresh, pausedFor, hist,
          showAlert, thresholds, thresholdsRef, midFrame, lastFrame,
          sessionId, backendTimer, sent, idAt, createRequest, updateRequests,
          updateFailures, audioEnabled, lastBeepRef,
          stableFor, ticksAttentive, onTime, prevBeep>>

ctlVars == <<thresholds, thresholdsRef>>

uiVars == <<showAlert, thresholds, thresholdsRef>>

frameVars == <<midFrame, lastFrame>>

appVars == <<isPaused, stats>>

accVars == <<sessionStartRef, attentionTimeRef, lastUpdateRef, distractionStartRef>>

detVars == <<detectionStateRef, detectionState>>

hystVars == <<isAttentiveRef, pendingStateRef, lastStateChangeRef>>

netVars == <<createRequest, updateRequests, updateFailures>>

backendVars == <<sessionId, backendTimer, sent, idAt, netVars>>

audioVars == <<audioEnabled, lastBeepRef>>

sessVars == <<stableFor, ticksAttentive, onTime, prevBeep>>

extVars == <<backendVars, audioVars, sessVars>>

\* ------------------------------------------------------- hysteresis filter
Mutant_WindowElapsed_Strict(currentTime, lastStateChange) ==
  currentTime - lastStateChange > HYSTERESIS_DELAY

Mutant_WindowElapsed_Seconds(currentTime, lastStateChange) ==
  (currentTime - lastStateChange) * 1000 >= HYSTERESIS_DELAY

\* `currentTime - lastStateChangeRef.current >= HYSTERESIS_DELAY`
WindowElapsed(currentTime, lastStateChange) ==
  currentTime - lastStateChange >= HYSTERESIS_DELAY

\* As updateAttentionState, but a new pending value does not restart the window.
Mutant_updateAttentionState_NoRestamp(newState, currentTime, isAttentive, pending, lastStateChange) ==
  IF newState # isAttentive
  THEN IF pending # Some(newState)
       THEN [isAttentive |-> isAttentive, pending |-> Some(newState),
             lastStateChange |-> lastStateChange, ret |-> isAttentive]
       ELSE IF WindowElapsed(currentTime, lastStateChange)
            THEN [isAttentive |-> newState, pending |-> Null,
                  lastStateChange |-> lastStateChange, ret |-> newState]
            ELSE [isAttentive |-> isAttentive, pending |-> pending,
                  lastStateChange |-> lastStateChange, ret |-> isAttentive]
  ELSE [isAttentive |-> isAttentive, pending |-> Null,
        lastStateChange |-> lastStateChange, ret |-> isAttentive]

\* As updateAttentionState, but an observation equal to the stable value does
\* not clear the pending value.
Mutant_updateAttentionState_KeepsPending(newState, currentTime, isAttentive, pending, lastStateChange) ==
  IF newState # isAttentive
  THEN IF pending # Some(newState)
       THEN [isAttentive |-> isAttentive, pending |-> Some(newState),
             lastStateChange |-> currentTime, ret |-> isAttentive]
       ELSE IF WindowElapsed(currentTime, lastStateChange)
            THEN [isAttentive |-> newState, pending |-> Null,
                  lastStateChange |-> lastStateChange, ret |-> newState]
            ELSE [isAttentive |-> isAttentive, pending |-> pending,
                  lastStateChange |-> lastStateChange, ret |-> isAttentive]
  ELSE [isAttentive |-> isAttentive, pending |-> pending,
        lastStateChange |-> lastStateChange, ret |-> isAttentive]

\* updateAttentionState(newState) at Date.now() = currentTime, on the three refs.
\* Returns the refs afterwards and the value returned to onResults.
updateAttentionState(newState, currentTime, isAttentive, pending, lastStateChange) ==
  IF newState # isAttentive
  THEN IF pending # Some(newState)
       THEN [isAttentive |-> isAttentive, pending |-> Some(newState),
             lastStateChange |-> currentTime, ret |-> isAttentive]
       ELSE IF WindowElapsed(currentTime, lastStateChange)
            THEN [isAttentive |-> newState, pending |-> Null,
                  lastStateChange |-> lastStateChange, ret |-> newState]
            ELSE [isAttentive |-> isAttentive, pending |-> pending,
                  lastStateChange |-> lastStateChange, ret |-> isAttentive]
  ELSE [isAttentive |-> isAttentive, pending |-> Null,
        lastStateChange |-> lastStateChange, ret |-> isAttentive]

\* ------------------------------------------------------------ accumulator
\* As TickElapsed, but every tick is taken to span the nominal interval.
Mutant_TickElapsed_Nominal(t, lastUpdate) == TICK_INTERVAL

\* `const elapsed = (now - lastUpdateRef.current) / 1000`
TickElapsed(t, lastUpdate) == t - lastUpdate

\* `attentionTimeRef.current += elapsed` when attentive.
Mutant_NextAttentionTime(isAttentive, attentionTime, elapsed) ==
  IF isAttentive THEN elapsed ELSE attentionTime

\* As NextAttentionTime, but the elapsed time is added whatever the state.
Mutant_NextAttentionTime_Always(isAttentive, attentionTime, elapsed) ==
  attentionTime + elapsed

NextAttentionTime(isAttentive, attentionTime, elapsed) ==
  IF isAttentive THEN attentionTime + elapsed ELSE attentionTime

Mutant_NextDistractionStart_KeepsStreak(isAttentive, distractionStart, t) ==
  IF distractionStart = Null /\ ~isAttentive THEN Some(t) ELSE distractionStart

Mutant_NextDistractionStart_Restamps(isAttentive, distractionStart, t) ==
  IF isAttentive THEN Null ELSE Some(t)

\* Cleared when attentive, stamped on the first distracted tick.
NextDistractionStart(isAttentive, distractionStart, t) ==
  IF isAttentive THEN Null
  ELSE IF distractionStart = Null THEN Some(t)
  ELSE distractionStart

AttentionPercentage(attentionTime, sessionTime) ==
  IF sessionTime > 0
  THEN (attentionTime * PERCENT * 100) \div sessionTime
  ELSE PERCENT * 100

\* `distractionStartRef.current ? (now - distractionStartRef.current) : 0`
\* (a truthiness test: null and 0 are both falsy).
DistractionDuration(t, distractionStart) ==
  IF distractionStart # Null /\ Val(distractionStart) # 0
  THEN t - Val(distractionStart)
  ELSE 0

\* The reset effect of AttentionMonitor, deps [stats.sessionTime, stats.attentionTime]:
\* it runs after a render in which a dep changed, and re-initialises the refs when
\* both are 0.
ResetEffectRuns(old, new) ==
  /\ (old.sessionTime # new.sessionTime \/ old.attentionTime # new.attentionTime)
  /\ new.sessionTime = 0
  /\ new.attentionTime = 0

Mutant_ResetStats(prev) ==
  [prev EXCEPT !.sessionTime = 0, !.attentionTime = 0,
               !.attentionPercentage = PERCENT * 100]

\* The updater handleReset passes to setStats.
ResetStats(prev) ==
  [prev EXCEPT !.sessionTime = 0, !.attentionTime = 0,
               !.attentionPercentage = PERCENT * 100,
               !.distractionDuration = 0]

Mutant_ShowAlert_Strict(s) ==
  s.distractionDuration > DISTRACTION_ALERT_DELAY * 1000

\* `const showAlert = stats.distractionDuration >= DISTRACTION_ALERT_DELAY`,
\* evaluated in every render of AttentionMonitor (durations in ms here).
ShowAlert(s) ==
  s.distractionDuration >= DISTRACTION_ALERT_DELAY * 1000

InitialThresholds == [face |-> 31, eye |-> 22]

\* ------------------------------------------------------------- geometry
\* Landmark coordinates are integers (hundredths of the image side).  The
\* offsets the code computes as floating-point quotients are kept as exact
\* fractions [n, d] with d > 0; thresholds are in hundredths.
Abs(x) == IF x < 0 THEN -x ELSE x

Zero == [n |-> 0, d |-> 1]

\* (p - (a + b) / 2) / |b - a|, for a # b.
Offset(p, a, b) == [n |-> 2 * p - a - b, d |-> 2 * Abs(b - a)]

\* As AvgAbs, but the signed mean.
Mutant_AvgAbs_Signed(q, r) == [n |-> q.n * r.d + r.n * q.d, d |-> 2 * q.d * r.d]

\* (|q| + |r|) / 2
AvgAbs(q, r) == [n |-> Abs(q.n) * r.d + Abs(r.n) * q.d, d |-> 2 * q.d * r.d]

\* q < k / 100
Less(q, k) == q.n * 100 < k * q.d

\* As AbsLess, but not strict.
Mutant_AbsLess_NonStrict(q, k) == Abs(q.n) * 100 <= k * q.d

\* |q| < k / 100
AbsLess(q, k) == Abs(q.n) * 100 < k * q.d

\* As calculateFaceDirection, but the offsets are computed when either
\* dimension of the face is positive.
Mutant_calculateFaceDirection_EitherSized(landmarks, xThreshold, yThreshold) ==
  LET nose == landmarks.NOSE_TIP
      leftCheek == landmarks.LEFT_CHEEK
      rightCheek == landmarks.RIGHT_CHEEK
      forehead == landmarks.FOREHEAD
      chin == landmarks.CHIN
      faceWidth == Abs(rightCheek.x - leftCheek.x)
      faceHeight == Abs(chin.y - forehead.y)
      sized == faceWidth > 0 \/ faceHeight > 0
      noseOffsetX == IF sized THEN Offset(nose.x, leftCheek.x, rightCheek.x) ELSE Zero
      noseOffsetY == IF sized THEN Offset(nose.y, forehead.y, chin.y) ELSE Zero
  IN [noseOffsetX |-> noseOffsetX,
      noseOffsetY |-> noseOffsetY,
      faceLooking |-> /\ AbsLess(noseOffsetX, xThreshold.face)
                      /\ AbsLess(noseOffsetY, yThreshold.face)]

\* calculateFaceDirection(landmarks); xThreshold and yThreshold are the two
\* reads of thresholdsRef.current.
calculateFaceDirection(landmarks, xThreshold, yThreshold) ==
  LET nose == landmarks.NOSE_TIP
      leftCheek == landmarks.LEFT_CHEEK
      rightCheek == landmarks.RIGHT_CHEEK
      forehead == landmarks.FOREHEAD
      chin == landmarks.CHIN
      faceWidth == Abs(rightCheek.x - leftCheek.x)
      faceHeight == Abs(chin.y - forehead.y)
      sized == faceWidth > 0 /\ faceHeight > 0
      noseOffsetX == IF sized THEN Offset(nose.x, leftCheek.x, rightCheek.x) ELSE Zero
      noseOffsetY == IF sized THEN Offset(nose.y, forehead.y, chin.y) ELSE Zero
  IN [noseOffsetX |-> noseOffsetX,
      noseOffsetY |-> noseOffsetY,
      faceLooking |-> /\ AbsLess(noseOffsetX, xThreshold.face)
                      /\ AbsLess(noseOffsetY, yThreshold.face)]

\* The gaze of one eye: iris offset from the eye centre over the eye size.
EyeGaze(iris, eyeLeft, eyeRight, eyeTop, eyeBottom) ==
  LET eyeWidth == Abs(eyeRight.x - eyeLeft.x)
      eyeHeight == Abs(eyeBottom.y - eyeTop.y)
      sized == eyeWidth > 0 /\ eyeHeight > 0
  IN [x |-> IF sized THEN Offset(iris.x, eyeLeft.x, eyeRight.x) ELSE Zero,
      y |-> IF sized THEN Offset(iris.y, eyeTop.y, eyeBottom.y) ELSE Zero]

\* calculateEyeGaze(landmarks); xThreshold and yThreshold are the two reads of
\* thresholdsRef.current.
calculateEyeGaze(landmarks, xThreshold, yThreshold) ==
  LET left == EyeGaze(landmarks.LEFT_IRIS_CENTER, landmarks.LEFT_EYE_LEFT,
                      landmarks.LEFT_EYE_RIGHT, landmarks.LEFT_EYE_TOP,
                      landmarks.LEFT_EYE_BOTTOM)
      right == EyeGaze(landmarks.RIGHT_IRIS_CENTER, landmarks.RIGHT_EYE_LEFT,
                       landmarks.RIGHT_EYE_RIGHT, landmarks.RIGHT_EYE_TOP,
                       landmarks.RIGHT_EYE_BOTTOM)
      avgGazeX == AvgAbs(left.x, right.x)
      avgGazeY == AvgAbs(left.y, right.y)
  IN [leftEyeGazeX |-> left.x, leftEyeGazeY |-> left.y,
      rightEyeGazeX |-> right.x, rightEyeGazeY |-> right.y,
      avgEyeGazeX |-> avgGazeX, avgEyeGazeY |-> avgGazeY,
      eyesLooking |-> Less(avgGazeX, xThreshold.eye) /\ Less(avgGazeY, yThreshold.eye)]

\* As Classify, but the comparisons read the thresholds the hook was mounted
\* with (a stale closure) instead of thresholdsRef.current.
Mutant_Classify_StaleThresholds(results, thresholdsNow) ==
  IF Len(results.multiFaceLandmarks) > 0
  THEN LET landmarks == results.multiFaceLandmarks[1]
           faceResult == calculateFaceDirection(landmarks, InitialThresholds,
                                                InitialThresholds)
           eyeData == calculateEyeGaze(landmarks, InitialThresholds, InitialThresholds)
       IN [faceDetected |-> TRUE,
           faceLooking |-> faceResult.faceLooking,
           eyesLooking |-> eyeData.eyesLooking,
           noseOffsetX |-> faceResult.noseOffsetX,
           noseOffsetY |-> faceResult.noseOffsetY,
           leftEyeGazeX |-> eyeData.leftEyeGazeX, leftEyeGazeY |-> eyeData.leftEyeGazeY,
           rightEyeGazeX |-> eyeData.rightEyeGazeX, rightEyeGazeY |-> eyeData.rightEyeGazeY,
           avgEyeGazeX |-> eyeData.avgEyeGazeX, avgEyeGazeY |-> eyeData.avgEyeGazeY]
  ELSE [faceDetected |-> FALSE, faceLooking |-> FALSE, eyesLooking |-> FALSE,
        noseOffsetX |-> Zero, noseOffsetY |-> Zero,
        leftEyeGazeX |-> Zero, leftEyeGazeY |-> Zero,
        rightEyeGazeX |-> Zero, rightEyeGazeY |-> Zero,
        avgEyeGazeX |-> Zero, avgEyeGazeY |-> Zero]

\* The part of onResults that classifies one detector result; thresholdsNow is
\* thresholdsRef.current during the call.
Classify(results, thresholdsNow) ==
  IF Len(results.multiFaceLandmarks) > 0
  THEN LET landmarks == results.multiFaceLandmarks[1]
           faceResult == calculateFaceDirection(landmarks, thresholdsNow, thresholdsNow)
           eyeData == calculateEyeGaze(landmarks, thresholdsNow, thresholdsNow)
       IN [faceDetected |-> TRUE,
           faceLooking |-> faceResult.faceLooking,
           eyesLooking |-> eyeData.eyesLooking,
           noseOffsetX |-> faceResult.noseOffsetX,
           noseOffsetY |-> faceResult.noseOffsetY,
           leftEyeGazeX |-> eyeData.leftEyeGazeX, leftEyeGazeY |-> eyeData.leftEyeGazeY,
           rightEyeGazeX |-> eyeData.rightEyeGazeX, rightEyeGazeY |-> eyeData.rightEyeGazeY,
           avgEyeGazeX |-> eyeData.avgEyeGazeX, avgEyeGazeY |-> eyeData.avgEyeGazeY]
  ELSE [faceDetected |-> FALSE, faceLooking |-> FALSE, eyesLooking |-> FALSE,
        noseOffsetX |-> Zero, noseOffsetY |-> Zero,
        leftEyeGazeX |-> Zero, leftEyeGazeY |-> Zero,
        rightEyeGazeX |-> Zero, rightEyeGazeY |-> Zero,
        avgEyeGazeX |-> Zero, avgEyeGazeY |-> Zero]

Pt(x, y) == [x |-> x, y |-> y]

\* A face whose outline is fixed: cheeks at x = 30 and 70, forehead and chin at
\* y = 20 and 80, each eye 10 wide and 4 high around (40, 40) and (60, 40).
\* nose is the nose tip; iris is the offset of both iris centres from their
\* eye centres.
Face(nose, iris) ==
  [NOSE_TIP |-> nose,
   FOREHEAD |-> Pt(50, 20), CHIN |-> Pt(50, 80),
   LEFT_CHEEK |-> Pt(30, 50), RIGHT_CHEEK |-> Pt(70, 50),
   LEFT_IRIS_CENTER |-> Pt(40 + iris.x, 40 + iris.y),
   RIGHT_IRIS_CENTER |-> Pt(60 + iris.x, 40 + iris.y),
   LEFT_EYE_LEFT |-> Pt(35, 40), LEFT_EYE_RIGHT |-> Pt(45, 40),
   LEFT_EYE_TOP |-> Pt(40, 38), LEFT_EYE_BOTTOM |-> Pt(40, 42),
   RIGHT_EYE_LEFT |-> Pt(55, 40), RIGHT_EYE_RIGHT |-> Pt(65, 40),
   RIGHT_EYE_TOP |-> Pt(60, 38), RIGHT_EYE_BOTTOM |-> Pt(60, 42)]

\* A face of any shape around (50, 50), with eyes around (40, 40) and (60, 40):
\* half the face width and height, half the width and height of each eye (as
\* Pt), and the offset of each iris centre from its eye centre.
FaceShape(nose, halfWidth, halfHeight, leftIris, rightIris, leftEyeHalf, rightEyeHalf) ==
  [NOSE_TIP |-> nose,
   FOREHEAD |-> Pt(50, 50 - halfHeight), CHIN |-> Pt(50, 50 + halfHeight),
   LEFT_CHEEK |-> Pt(50 - halfWidth, 50), RIGHT_CHEEK |-> Pt(50 + halfWidth, 50),
   LEFT_IRIS_CENTER |-> Pt(40 + leftIris.x, 40 + leftIris.y),
   RIGHT_IRIS_CENTER |-> Pt(60 + rightIris.x, 40 + rightIris.y),
   LEFT_EYE_LEFT |-> Pt(40 - leftEyeHalf.x, 40),
   LEFT_EYE_RIGHT |-> Pt(40 + leftEyeHalf.x, 40),
   LEFT_EYE_TOP |-> Pt(40, 40 - leftEyeHalf.y),
   LEFT_EYE_BOTTOM |-> Pt(40, 40 + leftEyeHalf.y),
   RIGHT_EYE_LEFT |-> Pt(60 - rightEyeHalf.x, 40),
   RIGHT_EYE_RIGHT |-> Pt(60 + rightEyeHalf.x, 40),
   RIGHT_EYE_TOP |-> Pt(60, 40 - rightEyeHalf.y),
   RIGHT_EYE_BOTTOM |-> Pt(60, 40 + rightEyeHalf.y)]

NoFace == [multiFaceLandmarks |-> <<>>]

OneFace(nose, iris) == [multiFaceLandmarks |-> <<Face(nose, iris)>>]

InitialStats ==
  [isAttentive |-> FALSE, faceDetected |-> FALSE, faceLooking |-> FALSE,
   eyesLooking |-> FALSE, sessionTime |-> 0, attentionTime |-> 0,
   attentionPercentage |-> PERCENT * 100, distractionDuration |-> 0,
   noseOffsetX |-> Zero, noseOffsetY |-> Zero,
   avgEyeGazeX |-> Zero, avgEyeGazeY |-> Zero]

\* As InitialDetectionState, but the detector starts out attentive.
Mutant_InitialDetectionState_Attentive ==
  [faceDetected |-> TRUE, faceLooking |-> TRUE, eyesLooking |-> TRUE,
   isAttentive |-> TRUE,
   noseOffsetX |-> Zero, noseOffsetY |-> Zero,
   leftEyeGazeX |-> Zero, leftEyeGazeY |-> Zero,
   rightEyeGazeX |-> Zero, rightEyeGazeY |-> Zero,
   avgEyeGazeX |-> Zero, avgEyeGazeY |-> Zero]

InitialDetectionState ==
  [faceDetected |-> FALSE, faceLooking |-> FALSE, eyesLooking |-> FALSE,
   isAttentive |-> FALSE,
   noseOffsetX |-> Zero, noseOffsetY |-> Zero,
   leftEyeGazeX |-> Zero, leftEyeGazeY |-> Zero,
   rightEyeGazeX |-> Zero, rightEyeGazeY |-> Zero,
   avgEyeGazeX |-> Zero, avgEyeGazeY |-> Zero]

\* Detector results: no face; a centred face looking at the screen; the same
\* face with both irises 0.3 of the eye width off centre.
FrameResults ==
  {NoFace, OneFace(Pt(50, 50), Pt(0, 0)), OneFace(Pt(50, 50), Pt(3, 0))}

\* History of the raw observations, kept beside the filter:
\*   lastRaw, lastFrameAt   the last raw value observed and when
\*   runStart               when the current run of equal raw values began
\*   stableBeforeRun        the stable value just before that run began
\*   flipsInRun             changes of the stable value during the run
\*   gapFree                a frame was observed at every 50 ms instant of the run
\*   prevFlipAt, lastFlipAt the times of the last two changes of the stable value
\*   toggleLen              n when the observations so far are n frames, one per
\*                          50 ms, each the opposite of the one before; else -1
\*   ref                    the reference transition function, run in lockstep
EmptyHist ==
  [lastRaw |-> Null, lastFrameAt |-> 0, runStart |-> 0, stableBeforeRun |-> FALSE,
   flipsInRun |-> 0, gapFree |-> TRUE, prevFlipAt |-> Null, lastFlipAt |-> Null, toggleLen |-> 0,
   ref |-> [stable |-> FALSE, pending |-> Null, pendingSince |-> 0]]

\* The transition function of the hysteresis state machine as specified:
\* (stable, pending, pendingSince, r, t) -> (stable', pending', pendingSince').
RefStep(m, r, t) ==
  IF r = m.stable THEN [m EXCEPT !.pending = Null]
  ELSE IF m.pending # Some(r) THEN [m EXCEPT !.pending = Some(r), !.pendingSince = t]
  ELSE IF t - m.pendingSince >= HYSTERESIS_DELAY
       THEN [m EXCEPT !.stable = r, !.pending = Null]
  ELSE m

\* The history after observing raw value r at time t, the stable value going
\* from stableBefore to stableAfter.
HistStep(h, r, t, stableBefore, stableAfter) ==
  LET newRun == h.lastRaw # Some(r)
      flipped == stableAfter # stableBefore
  IN [lastRaw |-> Some(r),
      lastFrameAt |-> t,
      runStart |-> IF newRun THEN t ELSE h.runStart,
      stableBeforeRun |-> IF newRun THEN stableBefore ELSE h.stableBeforeRun,
      flipsInRun |-> (IF newRun THEN 0 ELSE h.flipsInRun) + (IF flipped THEN 1 ELSE 0),
      gapFree |-> newRun \/ (h.gapFree /\ t <= h.lastFrameAt + HystQuantum),
      prevFlipAt |-> IF flipped THEN h.lastFlipAt ELSE h.prevFlipAt,
      lastFlipAt |-> IF flipped THEN Some(t) ELSE h.lastFlipAt,
      toggleLen |-> IF h.lastRaw = Null THEN 1
                    ELSE IF /\ h.toggleLen > 0
                            /\ newRun
                            /\ t = h.lastFrameAt + HystQuantum
                         THEN h.toggleLen + 1
                    ELSE -1,
      ref |-> RefStep(h.ref, r, t)]

Init ==
  /\ now = MountTime
  /\ isPaused = FALSE
  /\ stats = InitialStats
  /\ sessionStartRef = MountTime
  /\ attentionTimeRef = 0
  /\ lastUpdateRef = MountTime
  /\ distractionStartRef = Null
  /\ detectionState = InitialDetectionState
  /\ detectionStateRef = InitialDetectionState
  /\ isAttentiveRef = FALSE
  /\ pendingStateRef = Null
  /\ lastStateChangeRef = MountTime
  /\ camera = "null"
  /\ tickTimer = Some(MountTime + TICK_INTERVAL)
  /\ lastOp = "other"
  /\ prevDuration = 0
  /\ fresh = TRUE
  /\ pausedFor = 0
  /\ hist = EmptyHist
  /\ showAlert = ShowAlert(InitialStats)
  /\ thresholds = InitialThresholds
  /\ thresholdsRef = InitialThresholds
  /\ midFrame = Null
  /\ lastFrame = Null
  /\ sessionId = Null
  /\ backendTimer = Null
  /\ sent = Null
  /\ idAt = 0
  /\ createRequest = "pending"
  /\ updateRequests = 0
  /\ updateFailures = 0
  /\ audioEnabled = TRUE
  /\ lastBeepRef = 0
  /\ stableFor = 0
  /\ ticksAttentive = 0
  /\ onTime = TRUE
  /\ prevBeep = 0

\* ----------------------------------------------------------------- actions
\* The clock moves on by one quantum.
Advance ==
  /\ now + Quantum <= Horizon
  /\ now' = now + Quantum
  /\ pausedFor' = IF isPaused THEN pausedFor + Quantum ELSE pausedFor
  /\ lastOp' = "other"
  /\ UNCHANGED <<appVars, accVars, detVars, hystVars, camera, tickTimer,
                 prevDuration, extVars, fresh, hist, uiVars, frameVars>>

\* initFaceMesh reaches `cameraRef.current = camera; await camera.start()`.
CameraStart ==
  /\ camera = "null"
  /\ camera' = "running"
  /\ lastOp' = "other"
  /\ UNCHANGED <<now, appVars, accVars, detVars, hystVars, tickTimer,
                 prevDuration, extVars, fresh, pausedFor, hist, uiVars, frameVars>>

\* The object onResults passes to setDetectionState.
DetectionStateOf(c, isAttentive) ==
  [faceDetected |-> c.faceDetected,
   faceLooking |-> c.faceLooking,
   eyesLooking |-> c.eyesLooking,
   isAttentive |-> isAttentive,
   noseOffsetX |-> c.noseOffsetX, noseOffsetY |-> c.noseOffsetY,
   leftEyeGazeX |-> c.leftEyeGazeX, leftEyeGazeY |-> c.leftEyeGazeY,
   rightEyeGazeX |-> c.rightEyeGazeX, rightEyeGazeY |-> c.rightEyeGazeY,
   avgEyeGazeX |-> c.avgEyeGazeX, avgEyeGazeY |-> c.avgEyeGazeY]

\* As onResults, but a result without a face only publishes the detection
\* state and does not go through updateAttentionState.
Mutant_onResults_SkipsNoFace(results) ==
  \E c \in {Classify(results, thresholdsRef)} :
    \E u \in {updateAttentionState(c.faceDetected /\ c.faceLooking /\ c.eyesLooking,
                                    now, isAttentiveRef, pendingStateRef,
                                    lastStateChangeRef)} :
      /\ camera = "running"
      /\ isAttentiveRef' = IF c.faceDetected THEN u.isAttentive ELSE isAttentiveRef
      /\ pendingStateRef' = IF c.faceDetected THEN u.pending ELSE pendingStateRef
      /\ lastStateChangeRef' = IF c.faceDetected THEN u.lastStateChange
                               ELSE lastStateChangeRef
      /\ detectionState' = DetectionStateOf(c, IF c.faceDetected THEN u.ret
                                               ELSE isAttentiveRef)
      /\ detectionStateRef' = detectionState'
      /\ lastOp' = "other"
      /\ UNCHANGED <<now, appVars, accVars, camera, tickTimer, prevDuration, extVars, fresh,
                     pausedFor, uiVars, midFrame>>

\* onResults for one detector result, with the render that follows
\* setDetectionState and the effect that copies it into detectionStateRef.
\* (The canvas exists from mount on, so the `if (!canvas) return` never returns.)
onResults(results) ==
  \E c \in {Classify(results, thresholdsRef)} :
    \E u \in {updateAttentionState(c.faceDetected /\ c.faceLooking /\ c.eyesLooking,
                                    now, isAttentiveRef, pendingStateRef,
                                    lastStateChangeRef)} :
      /\ camera = "running"
      /\ isAttentiveRef' = u.isAttentive
      /\ pendingStateRef' = u.pending
      /\ lastStateChangeRef' = u.lastStateChange
      /\ detectionState' = DetectionStateOf(c, u.ret)
      /\ detectionStateRef' = detectionState'
      /\ lastOp' = "other"
      /\ UNCHANGED <<now, appVars, accVars, camera, tickTimer, prevDuration, extVars, fresh,
                     pausedFor, uiVars, midFrame>>

Frame ==
  \E results \in FrameResults :
    /\ onResults(results)
    /\ UNCHANGED <<hist, lastFrame>>

Mutant_CallbackMayStart_Yields == TRUE

\* JavaScript runs a callback to completion: onResults and updateAttentionState
\* are synchronous (no await between their statements), so no other callback
\* starts while a call of onResults is in progress.
CallbackMayStart == midFrame = Null

\* The effect of useAudioAlert runs after a render in which one of its deps
\* [enabled, isDistracted, distractionDuration] has changed.
AudioDepsChanged(enabled, before, after) ==
  \/ enabled # audioEnabled
  \/ before.isAttentive # after.isAttentive
  \/ before.distractionDuration # after.distractionDuration

\* As useAudioAlert, but a beep is played in every run of the effect in which
\* the alert conditions hold.
Mutant_useAudioAlert_Unthrottled(enabled, isDistracted, distractionDuration) ==
  IF ~enabled \/ ~isDistracted \/ distractionDuration < alertDelay * 1000
  THEN lastBeepRef
  ELSE now

\* The body of the effect of useAudioAlert: the value of lastBeepRef after it;
\* a beep is played exactly when the value becomes `now`.  (distractionDuration
\* is kept in ms here, alertDelay is in seconds.)
useAudioAlert(enabled, isDistracted, distractionDuration) ==
  IF ~enabled \/ ~isDistracted \/ distractionDuration < alertDelay * 1000
  THEN lastBeepRef
  ELSE IF now - lastBeepRef >= beepIntervalMs THEN now ELSE lastBeepRef

\* lastBeepRef after a render of App with audio switch `enabled` that replaces
\* the stats `before` by `after`.
AudioAfterRender(enabled, before, after) ==
  IF AudioDepsChanged(enabled, before, after)
  THEN useAudioAlert(enabled, ~after.isAttentive, after.distractionDuration)
  ELSE lastBeepRef

\* The backend update effect of App, deps [sessionId, stats, isPaused], when
\* one of them has changed: the cleanup clears the interval, and a new one is
\* created if there is a session id and the session is not paused.
BackendEffect(id, paused) ==
  IF id = Null \/ paused THEN Null ELSE Some(now + UPDATE_INTERVAL)

\* The setInterval callback of the timer effect, with the render that follows
\* onStatsUpdate (setStats) and the reset effect of that render.  The HTML timer
\* re-arms the interval after the callback has run, so the next callback is due
\* 100 ms later; a callback may run late.  (detectionStateRef is set by the mount
\* effect, so the `if (!state) return` never returns.)
IntervalCallback ==
  /\ CallbackMayStart
  /\ tickTimer # Null
  /\ now >= Val(tickTimer)
  /\ LET state == detectionStateRef
         elapsed == TickElapsed(now, lastUpdateRef)
         attentionTime == NextAttentionTime(state.isAttentive, attentionTimeRef, elapsed)
         distractionStart == NextDistractionStart(state.isAttentive,
                                                  distractionStartRef, now)
         sessionTime == now - sessionStartRef
         record == [isAttentive |-> state.isAttentive,
                    faceDetected |-> state.faceDetected,
                    faceLooking |-> state.faceLooking,
                    eyesLooking |-> state.eyesLooking,
                    sessionTime |-> sessionTime,
                    attentionTime |-> attentionTime,
                    attentionPercentage |-> AttentionPercentage(attentionTime, sessionTime),
                    distractionDuration |-> DistractionDuration(now, distractionStart),
                    noseOffsetX |-> state.noseOffsetX,
                    noseOffsetY |-> state.noseOffsetY,
                    avgEyeGazeX |-> state.avgEyeGazeX,
                    avgEyeGazeY |-> state.avgEyeGazeY]
         reinit == ResetEffectRuns(stats, record)
     IN /\ stats' = record
        /\ showAlert' = ShowAlert(record)
        /\ lastBeepRef' = AudioAfterRender(audioEnabled, stats, record)
        /\ prevDuration' = record.distractionDuration
        /\ fresh' = reinit
        /\ sessionStartRef' = IF reinit THEN now ELSE sessionStartRef
        /\ attentionTimeRef' = IF reinit THEN 0 ELSE attentionTime
        /\ lastUpdateRef' = now
        /\ distractionStartRef' = IF reinit THEN Null ELSE distractionStart
  /\ tickTimer' = Some(now + TICK_INTERVAL)
  /\ backendTimer' = BackendEffect(sessionId, isPaused)
  /\ pausedFor' = 0
  /\ lastOp' = "tick"
  /\ UNCHANGED <<now, isPaused, detVars, hystVars, camera, hist, ctlVars, frameVars,
                 sessionId, sent, idAt, netVars, audioEnabled>>

\* The interval callback in the models that keep no history of the ticks.
Tick ==
  /\ IntervalCallback
  /\ UNCHANGED sessVars

\* As handleReset, but the handler also puts the thresholds back to their
\* defaults.
Mutant_handleReset_DefaultThresholds ==
  LET new == ResetStats(stats)
      reinit == ResetEffectRuns(stats, new)
  IN /\ stats' = new
     /\ showAlert' = ShowAlert(new)
     /\ lastBeepRef' = AudioAfterRender(audioEnabled, stats, new)
     /\ backendTimer' = BackendEffect(sessionId, isPaused)
     /\ sessionStartRef' = IF reinit THEN now ELSE sessionStartRef
     /\ attentionTimeRef' = IF reinit THEN 0 ELSE attentionTimeRef
     /\ lastUpdateRef' = IF reinit THEN now ELSE lastUpdateRef
     /\ distractionStartRef' = IF reinit THEN Null ELSE distractionStartRef
     /\ fresh' = (reinit \/ fresh)
     /\ pausedFor' = IF reinit THEN 0 ELSE pausedFor
     /\ lastOp' = "reset"
     /\ thresholds' = InitialThresholds
     /\ thresholdsRef' = InitialThresholds
     /\ UNCHANGED <<now, isPaused, detVars, hystVars, camera, tickTimer,
                    prevDuration, hist, frameVars,
                    sessionId, sent, idAt, netVars, audioEnabled, sessVars>>

\* As handleReset, but the reset effect leaves the accumulated attention time
\* as it is.
Mutant_handleReset_KeepsAttention ==
  LET new == ResetStats(stats)
      reinit == ResetEffectRuns(stats, new)
  IN /\ stats' = new
     /\ showAlert' = ShowAlert(new)
     /\ lastBeepRef' = AudioAfterRender(audioEnabled, stats, new)
     /\ backendTimer' = BackendEffect(sessionId, isPaused)
     /\ sessionStartRef' = IF reinit THEN now ELSE sessionStartRef
     /\ lastUpdateRef' = IF reinit THEN now ELSE lastUpdateRef
     /\ distractionStartRef' = IF reinit THEN Null ELSE distractionStartRef
     /\ fresh' = (reinit \/ fresh)
     /\ pausedFor' = IF reinit THEN 0 ELSE pausedFor
     /\ lastOp' = "reset"
     /\ UNCHANGED <<now, isPaused, attentionTimeRef, detVars, hystVars, camera,
                    tickTimer, prevDuration, hist, ctlVars, frameVars,
                    sessionId, sent, idAt, netVars, audioEnabled, sessVars>>

\* As handleReset, but the handler also clears the pending value of the
\* hysteresis filter.
Mutant_handleReset_ClearsPending ==
  LET new == ResetStats(stats)
      reinit == ResetEffectRuns(stats, new)
  IN /\ stats' = new
     /\ showAlert' = ShowAlert(new)
     /\ lastBeepRef' = AudioAfterRender(audioEnabled, stats, new)
     /\ backendTimer' = BackendEffect(sessionId, isPaused)
     /\ sessionStartRef' = IF reinit THEN now ELSE sessionStartRef
     /\ attentionTimeRef' = IF reinit THEN 0 ELSE attentionTimeRef
     /\ lastUpdateRef' = IF reinit THEN now ELSE lastUpdateRef
     /\ distractionStartRef' = IF reinit THEN Null ELSE distractionStartRef
     /\ fresh' = (reinit \/ fresh)
     /\ pausedFor' = IF reinit THEN 0 ELSE pausedFor
     /\ lastOp' = "reset"
     /\ pendingStateRef' = Null
     /\ UNCHANGED <<now, isPaused, detVars, isAttentiveRef, lastStateChangeRef,
                    camera, tickTimer, prevDuration, hist, ctlVars, frameVars,
                    sessionId, sent, idAt, netVars, audioEnabled, sessVars>>

\* handleReset, with the render that follows setStats and the reset effect of
\* that render.
handleReset ==
  LET new == ResetStats(stats)
      reinit == ResetEffectRuns(stats, new)
  IN /\ stats' = new
     /\ showAlert' = ShowAlert(new)
     /\ lastBeepRef' = AudioAfterRender(audioEnabled, stats, new)
     /\ backendTimer' = BackendEffect(sessionId, isPaused)
     /\ sessionStartRef' = IF reinit THEN now ELSE sessionStartRef
     /\ attentionTimeRef' = IF reinit THEN 0 ELSE attentionTimeRef
     /\ lastUpdateRef' = IF reinit THEN now ELSE lastUpdateRef
     /\ distractionStartRef' = IF reinit THEN Null ELSE distractionStartRef
     /\ fresh' = (reinit \/ fresh)
     /\ pausedFor' = IF reinit THEN 0 ELSE pausedFor
     /\ lastOp' = "reset"
     /\ UNCHANGED <<now, isPaused, detVars, hystVars, camera, tickTimer,
                    prevDuration, hist, ctlVars, frameVars,
                    sessionId, sent, idAt, netVars, audioEnabled, sessVars>>

\* As handleTogglePause, but the cleanup of the timer effect does not clear the
\* interval when the session is paused.
Mutant_handleTogglePause_TimerRuns ==
  /\ isPaused' = ~isPaused
  /\ tickTimer' = IF isPaused THEN Some(now + TICK_INTERVAL) ELSE tickTimer
  /\ camera' = IF camera = "null" THEN "null"
               ELSE IF isPaused THEN "running" ELSE "stopped"
  /\ backendTimer' = BackendEffect(sessionId, ~isPaused)
  /\ lastOp' = "other"
  /\ UNCHANGED <<now, stats, accVars, detVars, hystVars, prevDuration, fresh,
                 pausedFor, hist, uiVars, frameVars,
                 sessionId, sent, idAt, netVars, audioVars, sessVars>>

\* handleTogglePause, with the render that follows setIsPaused: the timer effect
\* clears its interval and, when not paused, creates a new one; the pause/resume
\* effect of useAttentionDetector stops or starts the camera if there is one.
handleTogglePause ==
  /\ isPaused' = ~isPaused
  /\ tickTimer' = IF isPaused THEN Some(now + TICK_INTERVAL) ELSE Null
  /\ camera' = IF camera = "null" THEN "null"
               ELSE IF isPaused THEN "running" ELSE "stopped"
  /\ backendTimer' = BackendEffect(sessionId, ~isPaused)
  /\ lastOp' = "other"
  /\ UNCHANGED <<now, stats, accVars, detVars, hystVars, prevDuration, fresh,
                 pausedFor, hist, uiVars, frameVars,
                 sessionId, sent, idAt, netVars, audioVars, sessVars>>

\* The clock of the hysteresis model moves on by 50 ms.
HystAdvance ==
  /\ now + HystQuantum <= HystHorizon
  /\ now' = now + HystQuantum
  /\ lastOp' = "other"
  /\ UNCHANGED <<appVars, accVars, detVars, hystVars, camera, tickTimer,
                 prevDuration, extVars, fresh, pausedFor, hist, uiVars, frameVars>>

\* onResults, with the history of the observations kept.
HystFrame ==
  \E results \in FrameResults :
    /\ onResults(results)
    /\ hist' = HistStep(hist,
                        /\ detectionState'.faceDetected
                        /\ detectionState'.faceLooking
                        /\ detectionState'.eyesLooking,
                        now, isAttentiveRef, isAttentiveRef')
    /\ UNCHANGED lastFrame

Next ==
  \/ Advance
  \/ CameraStart
  \/ Frame
  \/ Tick
  \/ handleReset
  \/ handleTogglePause

Spec == Init /\ [][Next]_vars

\* The detector alone: frames at any instant of the 50 ms grid, no tick, reset
\* or pause.
HystNext ==
  \/ HystAdvance
  \/ CameraStart
  \/ HystFrame

HystSpec == Init /\ [][HystNext]_vars

\* The clock of the alert model moves on by one step of its grid.
AlertAdvance ==
  /\ now + AlertStep(now) <= AlertHorizon
  /\ now' = now + AlertStep(now)
  /\ pausedFor' = IF isPaused THEN pausedFor + AlertStep(now) ELSE pausedFor
  /\ lastOp' = "other"
  /\ UNCHANGED <<appVars, accVars, detVars, hystVars, camera, tickTimer,
                 prevDuration, extVars, fresh, hist, uiVars, frameVars>>

\* The session across the alert delay: ticks, frames and resets.
AlertNext ==
  \/ AlertAdvance
  \/ CameraStart
  \/ Frame
  \/ Tick
  \/ handleReset

AlertSpec == Init /\ [][AlertNext]_vars

\* onResults up to and including the first assignment updateAttentionState
\* makes to a ref: isAttentiveRef when it commits a change, else pendingStateRef.
FrameBegin ==
  \E results \in FrameResults :
    \E c \in {Classify(results, thresholdsRef)} :
      \E u \in {updateAttentionState(c.faceDetected /\ c.faceLooking /\ c.eyesLooking,
                                      now, isAttentiveRef, pendingStateRef,
                                      lastStateChangeRef)} :
        /\ camera = "running"
        /\ CallbackMayStart
        /\ IF u.isAttentive # isAttentiveRef
           THEN /\ isAttentiveRef' = u.isAttentive
                /\ UNCHANGED <<pendingStateRef, lastStateChangeRef>>
           ELSE /\ pendingStateRef' = u.pending
                /\ UNCHANGED <<isAttentiveRef, lastStateChangeRef>>
        /\ midFrame' = Some([c |-> c, u |-> u, stableBefore |-> isAttentiveRef])
        /\ lastOp' = "other"
        /\ UNCHANGED <<now, appVars, accVars, detVars, camera, tickTimer, prevDuration, extVars,
                       fresh, pausedFor, hist, uiVars, lastFrame>>

\* The rest of the onResults call in progress: the remaining assignment of
\* updateAttentionState and setDetectionState.  The render that copies the new
\* detectionState into detectionStateRef is a later task.
FrameEnd ==
  /\ midFrame # Null
  /\ LET m == Val(midFrame)
     IN /\ isAttentiveRef' = m.u.isAttentive
        /\ pendingStateRef' = m.u.pending
        /\ lastStateChangeRef' = m.u.lastStateChange
        /\ detectionState' = DetectionStateOf(m.c, m.u.ret)
        /\ hist' = HistStep(hist,
                            m.c.faceDetected /\ m.c.faceLooking /\ m.c.eyesLooking,
                            now, m.stableBefore, m.u.isAttentive)
  /\ midFrame' = Null
  /\ lastOp' = "other"
  /\ UNCHANGED <<now, appVars, accVars, detectionStateRef, camera, tickTimer,
                 prevDuration, extVars, fresh, pausedFor, uiVars, lastFrame>>

\* The render scheduled by setDetectionState and its effect
\* `detectionStateRef.current = detectionState`.
DetectionStateEffect ==
  /\ CallbackMayStart
  /\ detectionStateRef # detectionState
  /\ detectionStateRef' = detectionState
  /\ lastOp' = "other"
  /\ UNCHANGED <<now, appVars, accVars, detectionState, hystVars, camera, tickTimer,
                 prevDuration, extVars, fresh, pausedFor, hist, uiVars, frameVars>>

\* The clock moves on by one quantum between callbacks.
AsyncAdvance ==
  /\ midFrame = Null
  /\ now + Quantum <= AsyncHorizon
  /\ now' = now + Quantum
  /\ lastOp' = "other"
  /\ UNCHANGED <<appVars, accVars, detVars, hystVars, camera, tickTimer,
                 prevDuration, extVars, fresh, pausedFor, hist, uiVars, frameVars>>

\* The detector and the accumulator with the callbacks at the grain of the
\* event loop: a frame in two steps, the render after it as a task of its own.
AsyncNext ==
  \/ AsyncAdvance
  \/ CameraStart
  \/ FrameBegin
  \/ FrameEnd
  \/ DetectionStateEffect
  \/ Tick

AsyncSpec == Init /\ [][AsyncNext]_vars

\* Slider positions the control model moves the thresholds to (hundredths).
FaceThresholdValues == {20, 31}

EyeThresholdValues == {15, 22}

\* handleFaceThresholdChange: setThresholds({...thresholds, face}), with the
\* render that follows and the effect that copies thresholds into thresholdsRef.
handleFaceThresholdChange(value) ==
  /\ thresholds' = [thresholds EXCEPT !.face = value]
  /\ thresholdsRef' = thresholds'
  /\ lastOp' = "other"
  /\ UNCHANGED <<now, appVars, accVars, detVars, hystVars, camera, tickTimer,
                 prevDuration, extVars, fresh, pausedFor, hist, showAlert, frameVars>>

\* handleEyeThresholdChange, likewise.
handleEyeThresholdChange(value) ==
  /\ thresholds' = [thresholds EXCEPT !.eye = value]
  /\ thresholdsRef' = thresholds'
  /\ lastOp' = "other"
  /\ UNCHANGED <<now, appVars, accVars, detVars, hystVars, camera, tickTimer,
                 prevDuration, extVars, fresh, pausedFor, hist, showAlert, frameVars>>

\* Detector results of the control model: no face; a face turned 0.25 of its
\* width with the irises 0.2 of the eye width off centre; a face tilted 0.25
\* of its height.
ControlFrameResults ==
  {NoFace, OneFace(Pt(60, 50), Pt(2, 0)), OneFace(Pt(50, 65), Pt(0, 0))}

\* onResults, with the result and the thresholds App holds at that moment kept
\* as history.
ControlFrame ==
  \E results \in ControlFrameResults :
    /\ onResults(results)
    /\ lastFrame' = Some([results |-> results, thresholds |-> thresholds, at |-> now])
    /\ UNCHANGED hist

\* The clock of the control model moves on by one quantum.
CtlAdvance ==
  /\ now + CtlQuantum <= CtlHorizon
  /\ now' = now + CtlQuantum
  /\ pausedFor' = IF isPaused THEN pausedFor + CtlQuantum ELSE pausedFor
  /\ lastOp' = "other"
  /\ UNCHANGED <<appVars, accVars, detVars, hystVars, camera, tickTimer,
                 prevDuration, extVars, fresh, hist, uiVars, frameVars>>

\* The session with its controls: frames, ticks, reset, pause / resume and the
\* two threshold sliders.
CtlNext ==
  \/ CtlAdvance
  \/ CameraStart
  \/ ControlFrame
  \/ Tick
  \/ handleReset
  \/ handleTogglePause
  \/ \E value \in FaceThresholdValues : handleFaceThresholdChange(value)
  \/ \E value \in EyeThresholdValues : handleEyeThresholdChange(value)

CtlSpec == Init /\ [][CtlNext]_vars

\* Detector results of the geometry model: no face; faces of regular shape
\* with the irises centred and the nose centred, 0.1 or 0.4 of the width to
\* the side, or 0.25 of the height down; faces with the nose centred and each
\* iris centred or 0.1 or 0.3 of the eye width to either side; faces of zero
\* width or height; faces with an eye of zero width or height.
GeomFrameResults ==
  {NoFace}
  \cup {[multiFaceLandmarks |-> <<FaceShape(nose, 20, 30, Pt(0, 0), Pt(0, 0),
                                            Pt(5, 2), Pt(5, 2))>>] :
          nose \in {Pt(50, 50), Pt(54, 50), Pt(66, 50), Pt(50, 65)}}
  \cup {[multiFaceLandmarks |-> <<FaceShape(Pt(50, 50), 20, 30, li, ri,
                                            Pt(5, 2), Pt(5, 2))>>] :
          li \in {Pt(0, 0), Pt(3, 0), Pt(-3, 0)},
          ri \in {Pt(1, 0), Pt(3, 0), Pt(-3, 0)}}
  \cup {[multiFaceLandmarks |-> <<FaceShape(nose, half.x, half.y, Pt(0, 0), Pt(0, 0),
                                            Pt(5, 2), Pt(5, 2))>>] :
          nose \in {Pt(50, 50), Pt(66, 65)},
          half \in {Pt(0, 30), Pt(20, 0), Pt(0, 0)}}
  \cup {[multiFaceLandmarks |-> <<FaceShape(Pt(50, 50), 20, 30, Pt(3, 1), Pt(3, 1),
                                            le, re)>>] :
          le \in {Pt(5, 2), Pt(0, 2), Pt(5, 0)},
          re \in {Pt(5, 2), Pt(0, 0)}}

\* The slider positions of the geometry model: the low end of the range and
\* the two defaults.
GeomThresholdValues == {10, 22, 31}

\* onResults, with the result and the thresholds App holds at that moment kept
\* as history.
GeomFrame ==
  \E results \in GeomFrameResults :
    /\ onResults(results)
    /\ lastFrame' = Some([results |-> results, thresholds |-> thresholds, at |-> now])
    /\ UNCHANGED hist

\* The classifier over detector results of every shape, with the sliders.
GeomNext ==
  \/ CtlAdvance
  \/ CameraStart
  \/ GeomFrame
  \/ \E value \in GeomThresholdValues : handleFaceThresholdChange(value)
  \/ \E value \in GeomThresholdValues : handleEyeThresholdChange(value)

GeomSpec == Init /\ [][GeomNext]_vars

\* The clock of the audio model moves on by one step of its grid.
AudioAdvance ==
  /\ now + AudioStep(now) <= AudioHorizon
  /\ now' = now + AudioStep(now)
  /\ pausedFor' = IF isPaused THEN pausedFor + AudioStep(now) ELSE pausedFor
  /\ lastOp' = "other"
  /\ UNCHANGED <<appVars, accVars, detVars, hystVars, camera, tickTimer,
                 prevDuration, extVars, fresh, hist, uiVars, frameVars>>

\* The interval callback, with the beep before the last kept as history.
AudioTick ==
  /\ IntervalCallback
  /\ prevBeep' = IF lastBeepRef' # lastBeepRef THEN lastBeepRef ELSE prevBeep
  /\ UNCHANGED <<stableFor, ticksAttentive, onTime>>

\* handleToggleAudio, with the render that follows setAudioEnabled and the
\* effect of useAudioAlert, whose dep `enabled` has changed.
handleToggleAudio ==
  /\ audioEnabled' = ~audioEnabled
  /\ lastBeepRef' = AudioAfterRender(~audioEnabled, stats, stats)
  /\ prevBeep' = IF lastBeepRef' # lastBeepRef THEN lastBeepRef ELSE prevBeep
  /\ lastOp' = "other"
  /\ UNCHANGED <<now, appVars, accVars, detVars, hystVars, camera, tickTimer,
                 prevDuration, backendVars, fresh, pausedFor, hist, uiVars,
                 frameVars, stableFor, ticksAttentive, onTime>>

\* The session with the audio alert: ticks, frames and the audio switch.
AudioNext ==
  \/ AudioAdvance
  \/ CameraStart
  \/ Frame
  \/ AudioTick
  \/ handleToggleAudio

AudioSpec == Init /\ [][AudioNext]_vars

\* The clock of the backend model moves on by one tick interval.
BackendAdvance ==
  /\ now + TICK_INTERVAL <= BackendHorizon
  /\ now' = now + TICK_INTERVAL
  /\ pausedFor' = IF isPaused THEN pausedFor + TICK_INTERVAL ELSE pausedFor
  /\ lastOp' = "other"
  /\ UNCHANGED <<appVars, accVars, detVars, hystVars, camera, tickTimer,
                 prevDuration, extVars, fresh, hist, uiVars, frameVars>>

\* The interval callback, with the history of the ticks kept: how many read
\* an attentive state, and whether all of them ran when they were due.
SessionTick ==
  /\ IntervalCallback
  /\ ticksAttentive' = ticksAttentive + (IF detectionStateRef.isAttentive THEN 1 ELSE 0)
  /\ onTime' = (onTime /\ now = Val(tickTimer))
  /\ UNCHANGED <<stableFor, prevBeep>>

\* The clock of the ten-second session moves on by one tick interval once
\* the tick that is due has run, so that the ticks are 100 ms apart.
SessionAdvance ==
  /\ tickTimer # Null
  /\ now < Val(tickTimer)
  /\ now + TICK_INTERVAL <= MountTime + SessionLength
  /\ now' = now + TICK_INTERVAL
  /\ stableFor' = stableFor + (IF isAttentiveRef THEN TICK_INTERVAL ELSE 0)
  /\ pausedFor' = IF isPaused THEN pausedFor + TICK_INTERVAL ELSE pausedFor
  /\ lastOp' = "other"
  /\ UNCHANGED <<appVars, accVars, detVars, hystVars, camera, tickTimer,
                 prevDuration, backendVars, audioVars, ticksAttentive, onTime,
                 prevBeep, fresh, hist, uiVars, frameVars>>

\* onResults at the instants at which the detector delivers.
SessionFrame ==
  /\ now \in SessionFrameTimes
  /\ Frame

\* The ten-second session: ticks every 100 ms, frames before or after the
\* tick of the same instant.
SessionNext ==
  \/ SessionAdvance
  \/ CameraStart
  \/ SessionFrame
  \/ SessionTick

SessionSpec == Init /\ [][SessionNext]_vars

\* initSession: createSession resolves and setSessionId(session.id) runs, with
\* the render that follows and the backend update effect of that render.
initSession ==
  /\ CallbackMayStart
  /\ createRequest = "pending"
  /\ createRequest' = "resolved"
  /\ sessionId' = Some(1)
  /\ idAt' = now
  /\ backendTimer' = BackendEffect(Some(1), isPaused)
  /\ lastOp' = "other"
  /\ UNCHANGED <<now, appVars, accVars, detVars, hystVars, camera, tickTimer,
                 prevDuration, sent, updateRequests, updateFailures, audioVars,
                 sessVars, fresh, pausedFor, hist, uiVars, frameVars>>

\* The callback of the backend update interval: updateSession is called with
\* the stats of the render that created the interval, which are the current
\* ones, every change of stats creating a new interval; the call awaits its
\* response.
updateSession ==
  /\ CallbackMayStart
  /\ backendTimer # Null
  /\ now >= Val(backendTimer)
  /\ updateRequests' = updateRequests + 1
  /\ sent' = Some([total_time |-> stats.sessionTime,
                   attention_time |-> stats.attentionTime,
                   attention_pct |-> stats.attentionPercentage,
                   is_attentive |-> stats.isAttentive,
                   at |-> now])
  /\ backendTimer' = Some(now + UPDATE_INTERVAL)
  /\ lastOp' = "other"
  /\ UNCHANGED <<now, appVars, accVars, detVars, hystVars, camera, tickTimer,
                 prevDuration, sessionId, idAt, createRequest, updateFailures,
                 audioVars, sessVars, fresh, pausedFor, hist, uiVars, frameVars>>

\* As initSessionFails, but the catch block also clears the interval of the
\* tick.
Mutant_initSessionFails_StopsTimer ==
  /\ CallbackMayStart
  /\ createRequest = "pending"
  /\ createRequest' = "rejected"
  /\ tickTimer' = Null
  /\ lastOp' = "other"
  /\ UNCHANGED <<now, appVars, accVars, detVars, hystVars, camera,
                 prevDuration, sessionId, backendTimer, sent, idAt, updateRequests,
                 updateFailures, audioVars, sessVars, fresh, pausedFor, hist,
                 uiVars, frameVars>>

\* initSession when createSession rejects (no backend, an error status, the
\* 5 s timeout): the catch block logs and sets nothing.
initSessionFails ==
  /\ CallbackMayStart
  /\ createRequest = "pending"
  /\ createRequest' = "rejected"
  /\ lastOp' = "other"
  /\ UNCHANGED <<now, appVars, accVars, detVars, hystVars, camera, tickTimer,
                 prevDuration, sessionId, backendTimer, sent, idAt, updateRequests,
                 updateFailures, audioVars, sessVars, fresh, pausedFor, hist,
                 uiVars, frameVars>>

\* An updateSession call resolves: the callback of the interval returns.
updateSessionResolves ==
  /\ CallbackMayStart
  /\ updateRequests > 0
  /\ updateRequests' = updateRequests - 1
  /\ lastOp' = "other"
  /\ UNCHANGED <<now, appVars, accVars, detVars, hystVars, camera, tickTimer,
                 prevDuration, sessionId, backendTimer, sent, idAt, createRequest,
                 updateFailures, audioVars, sessVars, fresh, pausedFor, hist,
                 uiVars, frameVars>>

\* An updateSession call rejects: the catch block of the callback ignores the
\* error.
updateSessionFails ==
  /\ CallbackMayStart
  /\ updateRequests > 0
  /\ updateRequests' = updateRequests - 1
  /\ updateFailures' = updateFailures + 1
  /\ lastOp' = "other"
  /\ UNCHANGED <<now, appVars, accVars, detVars, hystVars, camera, tickTimer,
                 prevDuration, sessionId, backendTimer, sent, idAt, createRequest,
                 audioVars, sessVars, fresh, pausedFor, hist, uiVars, frameVars>>

\* The clock of the offline model moves on by half a second.
OfflineAdvance ==
  /\ now + OfflineQuantum <= OfflineHorizon
  /\ now' = now + OfflineQuantum
  /\ pausedFor' = IF isPaused THEN pausedFor + OfflineQuantum ELSE pausedFor
  /\ lastOp' = "other"
  /\ UNCHANGED <<appVars, accVars, detVars, hystVars, camera, tickTimer,
                 prevDuration, extVars, fresh, hist, uiVars, frameVars>>

\* The session with a backend that may fail: frames, ticks, createSession
\* resolving or rejecting, and updateSession calls resolving or rejecting.
OfflineNext ==
  \/ OfflineAdvance
  \/ CameraStart
  \/ Frame
  \/ Tick
  \/ initSession
  \/ initSessionFails
  \/ updateSession
  \/ updateSessionResolves
  \/ updateSessionFails

OfflineSpec == Init /\ [][OfflineNext]_vars

\* The session with a backend: ticks on time or late, the session id arriving
\* at any moment, and the backend update interval.
BackendNext ==
  \/ BackendAdvance
  \/ SessionTick
  \/ initSession
  \/ updateSession

BackendSpec == Init /\ [][BackendNext]_vars

\* ------------------------------------------------------ session properties
\* A step in which the interval callback ran (two ticks are always separated
\* by a clock step, which sets lastOp to "other").
TickStep == lastOp' = "tick" /\ lastOp # "tick"

\* Some tick has run since mount: every tick stamps lastUpdateRef with a time
\* later than mount, and before the first tick a reset changes no ref.
Ticked == lastUpdateRef > MountTime

\* C1: paused time is never counted.  A tick adds to the accumulated attention
\* time at most the unpaused time since the last stamp of lastTick, and a
\* distraction streak that continues across a pause grows by at most the
\* unpaused time since the previous tick (d before the pause is not reported
\* as d + the paused interval after it).
C1_PausedTimeNotCounted ==
  [][TickStep =>
       /\ attentionTimeRef' - attentionTimeRef <= (now - lastUpdateRef) - pausedFor
       /\ ((~fresh /\ ~stats.isAttentive /\ ~stats'.isAttentive) =>
             stats'.distractionDuration
               <= prevDuration + (now - lastUpdateRef) - pausedFor)]_vars

\* C6: right after every reset sessionStart = lastTick = the time of the reset,
\* attentionAccumulated = 0 and distractionStart = null.
C6_ResetReinitialises ==
  lastOp = "reset" =>
    /\ sessionStartRef = now
    /\ lastUpdateRef = now
    /\ attentionTimeRef = 0
    /\ distractionStartRef = Null

\* C7: right after reset the visible stats are sessionTime = 0, attentionTime = 0,
\* attentionPercentage = 100 and distractionDuration = 0.
C7_ResetVisibleStats ==
  lastOp = "reset" =>
    /\ stats.sessionTime = 0
    /\ stats.attentionTime = 0
    /\ stats.attentionPercentage = PERCENT * 100
    /\ stats.distractionDuration = 0

\* A reset invoked while distracted with a running streak, later than mount.
C7_Witness ==
  /\ lastOp = "reset"
  /\ ~stats.isAttentive
  /\ prevDuration > 0
  /\ sessionStartRef > MountTime

\* C8 as stated: once a tick has observed the stable state, distractionStart is
\* null iff the last observed stable state was attentive.
C8_Original ==
  Ticked => ((distractionStartRef = Null) <=> stats.isAttentive)

\* C8 amended: distractionStart is null iff the last tick observed the stable
\* state attentive, or no tick has run since the refs were (re-)initialised.
C8_DistractionStartNull ==
  (distractionStartRef = Null) <=> (fresh \/ stats.isAttentive)

\* A reset has re-initialised the refs after a tick observed a distracted state.
C8_Witness ==
  /\ Ticked
  /\ fresh
  /\ ~stats.isAttentive
  /\ distractionStartRef = Null

\* C9: attentionAccumulated changes only in a tick or a reset, and no tick
\* decreases it.
C9_AttentionMonotone ==
  [][/\ (attentionTimeRef' # attentionTimeRef => lastOp' \in {"tick", "reset"})
     /\ (TickStep => attentionTimeRef' >= attentionTimeRef)]_vars

\* A tick has added to an already positive accumulated attention time.
C9_Witness ==
  /\ lastOp = "tick"
  /\ stats.isAttentive
  /\ attentionTimeRef > TICK_INTERVAL

\* C10 as stated: of two successive tick records that are both distracted the
\* later has the larger distractionDuration; an attentive record has 0.
C10_Original ==
  [][TickStep =>
       /\ ((Ticked /\ ~stats.isAttentive /\ ~stats'.isAttentive) =>
             stats'.distractionDuration > prevDuration)
       /\ (stats'.isAttentive => stats'.distractionDuration = 0)]_vars

\* C10 amended: the same, for successive ticks between which no reset has
\* re-initialised the accumulator.
C10_DistractionDuration ==
  [][TickStep =>
       /\ ((~fresh /\ ~stats.isAttentive /\ ~stats'.isAttentive) =>
             stats'.distractionDuration > prevDuration)
       /\ (stats'.isAttentive => stats'.distractionDuration = 0)]_vars

\* A distracted tick record whose streak has grown over several ticks.
C10_Witness ==
  /\ lastOp = "tick"
  /\ ~stats.isAttentive
  /\ stats.distractionDuration > TICK_INTERVAL

\* C11: a tick at time t takes elapsed = t - lastTick; when the stable state it
\* read is attentive it adds elapsed to attentionAccumulated and clears
\* distractionStart, otherwise it stamps distractionStart with t only when it was
\* null; it sets lastTick = t; and the record it emits has sessionTime =
\* t - sessionStart, attentionPercentage = 100 * attentionAccumulated / sessionTime
\* (to the hundredth of a percent) when sessionTime > 0 and 100 otherwise, and
\* distractionDuration = t - distractionStart when distractionStart is non-null
\* and 0 otherwise.
C11_TickUpdate ==
  [][TickStep =>
       LET attentive == detectionStateRef.isAttentive
           elapsed == now - lastUpdateRef
           sessionTime == now - sessionStartRef
       IN /\ attentionTimeRef' = IF attentive THEN attentionTimeRef + elapsed
                                 ELSE attentionTimeRef
          /\ distractionStartRef' = IF attentive THEN Null
                                    ELSE IF distractionStartRef = Null THEN Some(now)
                                    ELSE distractionStartRef
          /\ lastUpdateRef' = now
          /\ stats'.isAttentive = attentive
          /\ stats'.sessionTime = sessionTime
          /\ stats'.attentionTime = attentionTimeRef'
          /\ IF sessionTime > 0
             THEN /\ stats'.attentionPercentage * sessionTime
                       <= attentionTimeRef' * 100 * 100
                  /\ attentionTimeRef' * 100 * 100
                       < (stats'.attentionPercentage + 1) * sessionTime
             ELSE stats'.attentionPercentage = 100 * 100
          /\ stats'.distractionDuration =
               IF distractionStartRef' # Null THEN now - Val(distractionStartRef')
               ELSE 0]_vars

\* A late tick has added more than one interval to the accumulated attention
\* time of a session that was not attentive throughout.
C11_Witness ==
  /\ lastOp = "tick"
  /\ stats.isAttentive
  /\ attentionTimeRef > 0
  /\ stats.attentionPercentage < PERCENT * 100
  /\ lastUpdateRef > sessionStartRef + attentionTimeRef + TICK_INTERVAL

C13_NoTickWhilePaused ==
  [][(isPaused /\ isPaused') =>
       /\ ~TickStep
       /\ (accVars' # accVars => lastOp' = "reset")
       /\ (stats' # stats => lastOp' = "reset")]_vars

\* The session has been paused for two tick intervals after a tick had run.
C13_Witness ==
  /\ isPaused
  /\ Ticked
  /\ pausedFor >= 2 * TICK_INTERVAL

\* C14: in every paused state no detector frame is classified: a step taken
\* from a paused state changes neither the hysteresis refs nor detectionState.
C14_PauseStopsFrames ==
  [][isPaused => (hystVars' = hystVars /\ detectionState' = detectionState)]_vars

\* A step in which onResults classified a detector result.
FrameStep == lastFrame' # lastFrame

\* C15: the hysteresis refs (stable, pending, pendingSince) change only in a
\* step in which a frame is classified; a tick, a reset, a pause, a resume and
\* a threshold change leave all three as they were.
C15_HysteresisOwnedByFrames ==
  [][/\ (hystVars' # hystVars => FrameStep)
     /\ ((\/ TickStep
          \/ lastOp' = "reset"
          \/ isPaused' # isPaused
          \/ thresholds' # thresholds) => hystVars' = hystVars)]_vars

\* A reset while paused, with moved thresholds, finds the filter attentive and
\* debouncing, and leaves it so.
C15_Witness ==
  /\ lastOp = "reset"
  /\ isPaused
  /\ thresholds # InitialThresholds
  /\ isAttentiveRef
  /\ pendingStateRef # Null
  /\ Ticked

\* C16: a reset zeroes the visible session stats and leaves the thresholds, and
\* the copy of them the classifier reads, as they were; a frame classified
\* right after a reset is classified with those thresholds.
C16_ResetKeepsThresholds ==
  [][/\ (lastOp' = "reset" =>
          /\ thresholds' = thresholds
          /\ thresholdsRef' = thresholdsRef
          /\ stats'.sessionTime = 0
          /\ stats'.attentionTime = 0
          /\ stats'.distractionDuration = 0)
     /\ ((lastOp = "reset" /\ FrameStep) =>
          LET d == detectionState'
          IN /\ Val(lastFrame').thresholds = thresholds
             /\ d.faceDetected =>
                  /\ d.faceLooking =
                       (/\ Abs(d.noseOffsetX.n) * 100 < thresholds.face * d.noseOffsetX.d
                        /\ Abs(d.noseOffsetY.n) * 100 < thresholds.face * d.noseOffsetY.d)
                  /\ d.eyesLooking =
                       (/\ d.avgEyeGazeX.n * 100 < thresholds.eye * d.avgEyeGazeX.d
                        /\ d.avgEyeGazeY.n * 100 < thresholds.eye * d.avgEyeGazeY.d))]_vars

\* After both thresholds were moved and a tick had run, a reset was invoked
\* and the next frame was classified, as not looking, with the moved thresholds.
C16_Witness ==
  /\ lastFrame # Null
  /\ Val(lastFrame).thresholds.face # InitialThresholds.face
  /\ Val(lastFrame).thresholds.eye # InitialThresholds.eye
  /\ detectionState.faceDetected
  /\ ~detectionState.faceLooking
  /\ stats.sessionTime = 0
  /\ sessionStartRef > MountTime
  /\ sessionStartRef = Val(lastFrame).at

\* C17: a reset invoked after another reset with no tick in between leaves the
\* accumulator and the visible stats as one reset invoked at that time does:
\* sessionStart = lastTick = the time of the invocation, attentionAccumulated = 0,
\* distractionStart = null and the four visible values zeroed.
C17_ResetIdempotent ==
  [][(lastOp' = "reset" /\ lastOp # "reset" /\ fresh /\ Ticked) =>
       /\ sessionStartRef' = now
       /\ lastUpdateRef' = now
       /\ attentionTimeRef' = 0
       /\ distractionStartRef' = Null
       /\ stats' = [stats EXCEPT !.sessionTime = 0, !.attentionTime = 0,
                                 !.attentionPercentage = 100 * 100,
                                 !.distractionDuration = 0]]_vars

\* C18: the isAttentive value a tick uses is the stable value left by the most
\* recent completed frame classification.
C18_TickReadsLatest ==
  [][TickStep => stats'.isAttentive = isAttentiveRef]_vars

\* C19: whenever a tick or another frame can start, the hysteresis refs and the
\* published detectionState are the result of a whole number of completed
\* transitions: they equal the reference machine run over the completed frames.
C19_FramesSerialized ==
  CallbackMayStart =>
    /\ isAttentiveRef = hist.ref.stable
    /\ pendingStateRef = hist.ref.pending
    /\ (pendingStateRef # Null => lastStateChangeRef = hist.ref.pendingSince)
    /\ detectionState.isAttentive = hist.ref.stable

\* A tick has run after a frame committed a change and a later frame left a
\* pending value.
C19_Witness ==
  /\ midFrame = Null
  /\ lastOp = "tick"
  /\ hist.lastFlipAt # Null
  /\ isAttentiveRef
  /\ pendingStateRef # Null

\* C20: every frame is classified with one thresholds value, the one App holds
\* when the frame arrives (so the first frame after setThresholds uses the new
\* value): faceLooking compares both nose offsets with its face threshold and
\* eyesLooking compares both average gazes with its eye threshold.
C20_NoTornThresholds ==
  (lastFrame # Null /\ detectionState.faceDetected) =>
    LET t == Val(lastFrame).thresholds
        d == detectionState
    IN /\ d.faceLooking =
            (/\ Abs(d.noseOffsetX.n) * 100 < t.face * d.noseOffsetX.d
             /\ Abs(d.noseOffsetY.n) * 100 < t.face * d.noseOffsetY.d)
       /\ d.eyesLooking =
            (/\ d.avgEyeGazeX.n * 100 < t.eye * d.avgEyeGazeX.d
             /\ d.avgEyeGazeY.n * 100 < t.eye * d.avgEyeGazeY.d)

\* Both thresholds were lowered, and the frame classified next is found not
\* looking on either count although it is within the thresholds of before.
C20_Witness ==
  /\ lastFrame # Null
  /\ Val(lastFrame).thresholds.face < InitialThresholds.face
  /\ Val(lastFrame).thresholds.eye < InitialThresholds.eye
  /\ detectionState.faceDetected
  /\ ~detectionState.faceLooking
  /\ ~detectionState.eyesLooking
  /\ Abs(detectionState.noseOffsetX.n) * 100
       < InitialThresholds.face * detectionState.noseOffsetX.d
  /\ detectionState.avgEyeGazeX.n * 100
       < InitialThresholds.eye * detectionState.avgEyeGazeX.d

\* --------------------------------------------------- hysteresis properties
\* C2: any two consecutive changes of the stable value are at least
\* HYSTERESIS_DELAY apart.
C2_SingleFlipPerWindow ==
  (hist.prevFlipAt # Null /\ hist.lastFlipAt # Null) =>
    Val(hist.lastFlipAt) - Val(hist.prevFlipAt) >= HYSTERESIS_DELAY

\* The stable value has changed twice.
C2_Witness ==
  /\ hist.prevFlipAt # Null
  /\ hist.lastFlipAt # Null

\* C3: the stable value changes to r only on an observation of r that ends a
\* run of observations of r begun at least HYSTERESIS_DELAY earlier; and while
\* the raw signal has toggled on every 50 ms frame the stable value is still
\* its initial value.
C3_FlipOnlyAfterFullWindow ==
  /\ [][isAttentiveRef' # isAttentiveRef =>
          /\ hist'.lastRaw = Some(isAttentiveRef')
          /\ hist'.lastFrameAt = now
          /\ now - hist'.runStart >= HYSTERESIS_DELAY]_vars
  /\ [](hist.toggleLen > 0 => isAttentiveRef = FALSE)

\* The raw signal has toggled on every 50 ms frame for a full second.
C3_Witness ==
  /\ hist.toggleLen * HystQuantum >= 10 * TICK_INTERVAL
  /\ isAttentiveRef = FALSE

C5_RefinesReference ==
  /\ isAttentiveRef = hist.ref.stable
  /\ detectionState.isAttentive = hist.ref.stable
  /\ pendingStateRef = hist.ref.pending
  /\ (pendingStateRef # Null => lastStateChangeRef = hist.ref.pendingSince)

\* Both machines have committed a change and are debouncing the next one.
C5_Witness ==
  /\ hist.lastFlipAt # Null
  /\ hist.ref.pending # Null
  /\ hist.ref.stable = TRUE
\* ------------------------------------------------- classification properties

\* The hysteresis refs before a frame, as the state of the specified machine.
RefsNow ==
  [stable |-> isAttentiveRef, pending |-> pendingStateRef,
   pendingSince |-> lastStateChangeRef]

\* The frame that has just been classified moved the hysteresis refs as the
\* specified machine moves on raw value r, and published its stable value.
FrameApplied(r) ==
  LET m == RefStep(RefsNow, r, now)
  IN /\ isAttentiveRef' = m.stable
     /\ pendingStateRef' = m.pending
     /\ lastStateChangeRef' = m.pendingSince
     /\ detectionState'.isAttentive = m.stable

\* C21: for a frame with a face, faceLooking is true exactly when both nose
\* offsets are strictly below the face threshold in absolute value,
\* eyesLooking exactly when both means of the absolute gaze offsets are
\* strictly below the eye threshold, and the raw value given to the hysteresis
\* is faceDetected and faceLooking and eyesLooking; all offsets zero give all
\* three true whatever the thresholds, and a nose offset of 0.4 under a face
\* threshold of 0.31 gives faceLooking false and a raw value of false.
C21_Classification ==
  [][(FrameStep /\ detectionState'.faceDetected) =>
       LET d == detectionState'
           l == d.leftEyeGazeX
           r == d.rightEyeGazeX
           u == d.leftEyeGazeY
           v == d.rightEyeGazeY
           fl == /\ Abs(d.noseOffsetX.n) * 100 < thresholds.face * d.noseOffsetX.d
                 /\ Abs(d.noseOffsetY.n) * 100 < thresholds.face * d.noseOffsetY.d
           el == /\ (Abs(l.n) * r.d + Abs(r.n) * l.d) * 100 < thresholds.eye * 2 * l.d * r.d
                 /\ (Abs(u.n) * v.d + Abs(v.n) * u.d) * 100 < thresholds.eye * 2 * u.d * v.d
           allZero == /\ d.noseOffsetX.n = 0 /\ d.noseOffsetY.n = 0
                      /\ l.n = 0 /\ r.n = 0 /\ u.n = 0 /\ v.n = 0
       IN /\ d.faceLooking = fl
          /\ d.eyesLooking = el
          /\ FrameApplied(fl /\ el)
          /\ allZero => (d.faceLooking /\ d.eyesLooking /\ FrameApplied(TRUE))
          /\ (thresholds.face = 31 /\ d.noseOffsetX.n * 10 = 4 * d.noseOffsetX.d) =>
               (~d.faceLooking /\ FrameApplied(FALSE))]_vars

\* Under the default face threshold, a face with the nose 0.4 of the face
\* width to the side and the eyes centred is classified while the filter is
\* attentive: not facing, eyes looking, and the filter starts debouncing
\* towards distracted.
C21_Witness ==
  /\ lastFrame # Null
  /\ Val(lastFrame).at = now
  /\ thresholds.face = 31
  /\ detectionState.faceDetected
  /\ detectionState.noseOffsetX.n * 10 = 4 * detectionState.noseOffsetX.d
  /\ ~detectionState.faceLooking
  /\ detectionState.eyesLooking
  /\ isAttentiveRef
  /\ pendingStateRef = Some(FALSE)

\* C22: a frame without a face is classified like any other: faceDetected,
\* faceLooking and eyesLooking are false, every offset is 0, and the
\* hysteresis machine takes its step on the raw value false.
C22_NoFaceFrame ==
  [][(FrameStep /\ Val(lastFrame').results = NoFace) =>
       LET d == detectionState'
       IN /\ ~d.faceDetected /\ ~d.faceLooking /\ ~d.eyesLooking
          /\ d.noseOffsetX = Zero /\ d.noseOffsetY = Zero
          /\ d.leftEyeGazeX = Zero /\ d.leftEyeGazeY = Zero
          /\ d.rightEyeGazeX = Zero /\ d.rightEyeGazeY = Zero
          /\ d.avgEyeGazeX = Zero /\ d.avgEyeGazeY = Zero
          /\ FrameApplied(FALSE)]_vars

\* The face is lost while the filter is attentive: the frame without a face
\* starts the debounce towards distracted.
C22_Witness ==
  /\ lastFrame # Null
  /\ Val(lastFrame).results = NoFace
  /\ Val(lastFrame).at = now
  /\ ~detectionState.faceDetected
  /\ isAttentiveRef
  /\ detectionState.isAttentive
  /\ pendingStateRef = Some(FALSE)
  /\ lastStateChangeRef = now

\* The landmarks of the frame classified last.
LastLandmarks == Val(lastFrame).results.multiFaceLandmarks[1]

\* C23: a face of zero width or zero height has both nose offsets 0, an eye
\* of zero width or zero height has both gaze offsets of that eye 0, and no
\* reported offset is a quotient by zero.
C23_DegenerateGeometry ==
  (lastFrame # Null /\ Val(lastFrame).results # NoFace) =>
    LET lm == LastLandmarks
        d == detectionState
    IN /\ (lm.RIGHT_CHEEK.x = lm.LEFT_CHEEK.x \/ lm.CHIN.y = lm.FOREHEAD.y) =>
            (d.noseOffsetX = Zero /\ d.noseOffsetY = Zero)
       /\ (\/ lm.LEFT_EYE_RIGHT.x = lm.LEFT_EYE_LEFT.x
            \/ lm.LEFT_EYE_BOTTOM.y = lm.LEFT_EYE_TOP.y) =>
            (d.leftEyeGazeX = Zero /\ d.leftEyeGazeY = Zero)
       /\ (\/ lm.RIGHT_EYE_RIGHT.x = lm.RIGHT_EYE_LEFT.x
            \/ lm.RIGHT_EYE_BOTTOM.y = lm.RIGHT_EYE_TOP.y) =>
            (d.rightEyeGazeX = Zero /\ d.rightEyeGazeY = Zero)
       /\ d.noseOffsetX.d > 0 /\ d.noseOffsetY.d > 0
       /\ d.leftEyeGazeX.d > 0 /\ d.leftEyeGazeY.d > 0
       /\ d.rightEyeGazeX.d > 0 /\ d.rightEyeGazeY.d > 0
       /\ d.avgEyeGazeX.d > 0 /\ d.avgEyeGazeY.d > 0

\* A face of zero width but positive height, with the nose away from the
\* centre line in both directions, is classified with both nose offsets 0.
C23_Witness ==
  /\ lastFrame # Null
  /\ Val(lastFrame).results # NoFace
  /\ LastLandmarks.RIGHT_CHEEK.x = LastLandmarks.LEFT_CHEEK.x
  /\ LastLandmarks.CHIN.y # LastLandmarks.FOREHEAD.y
  /\ LastLandmarks.NOSE_TIP.x # LastLandmarks.LEFT_CHEEK.x
  /\ LastLandmarks.NOSE_TIP.y # 50
  /\ detectionState.faceDetected
  /\ detectionState.noseOffsetX = Zero
  /\ detectionState.noseOffsetY = Zero
  /\ detectionState.faceLooking

\* C24: each average gaze is the mean of the absolute values of the two
\* eyes' offsets, so it is never negative, and equal and opposite offsets of
\* magnitude m average to m.
C24_AverageOfMagnitudes ==
  (lastFrame # Null /\ detectionState.faceDetected) =>
    LET d == detectionState
        IsMeanAbs(avg, l, r) ==
          /\ avg.d > 0
          /\ avg.n >= 0
          /\ avg.n * 2 * l.d * r.d = (Abs(l.n) * r.d + Abs(r.n) * l.d) * avg.d
          /\ (l.n * r.d = -(r.n * l.d)) => avg.n * l.d = Abs(l.n) * avg.d
    IN /\ IsMeanAbs(d.avgEyeGazeX, d.leftEyeGazeX, d.rightEyeGazeX)
       /\ IsMeanAbs(d.avgEyeGazeY, d.leftEyeGazeY, d.rightEyeGazeY)

\* The left iris is 0.3 of the eye width to one side and the right iris 0.3
\* to the other: the average horizontal gaze is 0.3.
C24_Witness ==
  /\ lastFrame # Null
  /\ detectionState.faceDetected
  /\ detectionState.leftEyeGazeX.n > 0
  /\ detectionState.rightEyeGazeX.n < 0
  /\ detectionState.leftEyeGazeX.n * detectionState.rightEyeGazeX.d
       = -(detectionState.rightEyeGazeX.n * detectionState.leftEyeGazeX.d)
  /\ detectionState.avgEyeGazeX.n * 10 = 3 * detectionState.avgEyeGazeX.d

\* ---------------------------------------------------- accounting properties

\* C27: a reset is never lost when it interleaves with the tick: the tick
\* that runs right after a reset, at the instant of the reset, reports no
\* session time and no attention time, none having passed since the reset.
C27_ResetNotLost ==
  [][(TickStep /\ lastOp = "reset") =>
       /\ stats'.sessionTime = 0
       /\ stats'.attentionTime = 0]_vars

BeepStep == lastBeepRef' # lastBeepRef

\* The conditions of the audio alert, on the state the last render showed.
AudioConditions ==
  /\ audioEnabled
  /\ ~stats.isAttentive
  /\ stats.distractionDuration >= alertDelay * 1000

\* C30: a beep is played only in a render with audio enabled, the reported
\* state distracted and distractionDuration >= alertDelay, and never less than
\* 1000 ms after the beep before it; and after every tick that leaves those
\* conditions true the last beep is less than 1000 ms old, so that with ticks
\* arriving a beep recurs every second.
C30_BeepThrottled ==
  [][/\ BeepStep =>
          /\ AudioConditions'
          /\ lastBeepRef' = now
          /\ now - lastBeepRef >= beepIntervalMs
     /\ (TickStep /\ AudioConditions') => now - lastBeepRef' < beepIntervalMs]_vars

\* With audio enabled, a second beep has just been played at a tick, exactly
\* 1000 ms after the first, in a streak that has lasted a second longer than
\* the alert delay.
C30_Witness ==
  /\ lastOp = "tick"
  /\ AudioConditions
  /\ lastBeepRef = now
  /\ prevBeep > 0
  /\ lastBeepRef - prevBeep = beepIntervalMs
  /\ stats.distractionDuration = alertDelay * 1000 + beepIntervalMs

\* --------------------------------------------------------- backend properties

\* C26: where a session id exists, the session is not paused and the ticks
\* keep updating the stats, updateSession is called about once per second:
\* once the id has been there for two seconds, with every tick on time and
\* none outstanding, a call has been made within the last two seconds.
C26_UpdateOccurs ==
  (/\ sessionId # Null
   /\ ~isPaused
   /\ onTime
   /\ tickTimer # Null
   /\ now < Val(tickTimer)
   /\ now - idAt >= 2 * UPDATE_INTERVAL) =>
    /\ sent # Null
    /\ now - Val(sent).at <= 2 * UPDATE_INTERVAL

\* ------------------------------------------------------- sampling properties

\* The tick that ends the ten-second session has just run.
SessionEnd == lastOp = "tick" /\ stats.sessionTime = SessionLength

monitoringVars ==
  <<isPaused, stats, accVars, detVars, hystVars, camera, tickTimer, uiVars,
    midFrame, audioVars>>

\* A step in which createSession or an updateSession call is rejected.
FailureStep ==
  \/ createRequest' = "rejected" /\ createRequest # "rejected"
  \/ updateFailures' # updateFailures

\* C31: backend failures never affect monitoring: a rejected createSession or
\* updateSession changes nothing the monitoring reads or shows, nor the
\* session id or the backend interval; and once createSession has been
\* rejected the session id stays null, no backend interval exists and no
\* updateSession call is ever issued.
C31_FailuresLeaveMonitoring ==
  [][/\ FailureStep =>
          /\ monitoringVars' = monitoringVars
          /\ sessionId' = sessionId
          /\ backendTimer' = backendTimer
          /\ sent' = sent
     /\ createRequest' = "rejected" =>
          /\ sessionId' = Null
          /\ backendTimer' = Null
          /\ sent' = Null
          /\ updateRequests' = 0]_vars

\* Offline mode: createSession was rejected, and a tick has just reported an
\* attentive state with attention time accumulated, frames having been
\* classified and debounced meanwhile.
C31_Witness ==
  /\ createRequest = "rejected"
  /\ sessionId = Null
  /\ lastOp = "tick"
  /\ detectionState.faceDetected
  /\ stats.isAttentive
  /\ stats.attentionTime > 0
  /\ stats.sessionTime > stats.attentionTime

====
